---- MODULE Spec2Model ----
(***************************************************************************)
(* Model of game_release_bot.py: the release pipeline (source fetch,       *)
(* poster filter, per-item enrichment), the item_lists session registry    *)
(* kept in bot_data, the pagination callback handler, the /releases_*      *)
(* commands and the daily notification jobs.                               *)
(*                                                                         *)
(* Strings that the code formats and parses (callback tokens) are          *)
(* sequences of one-character strings.  None and "" are both modelled by   *)
(* the empty string / empty sequence, as the code only tests truthiness.   *)
(***************************************************************************)
EXTENDS Integers, Sequences, FiniteSets, TLC

VARIABLES
    chat_ids,     \* bot_data["chat_ids"]: the subscribed chats
    item_lists,   \* bot_data["item_lists"]: list_id -> sequence of enriched items
    job,          \* the running daily job: position, snapshot of chats, items
    h,            \* record of the last handler / pipeline invocation
    tmdb          \* what the Source holds for today (read only)

vars == <<chat_ids, item_lists, job, h, tmdb>>

----------------------------------------------------------------------------
(* Bounds of the model *)

NumChats == 2          \* chats that talk to the bot
MaxLists == 2          \* list ids uuid4 can hand out before the model stops committing
MaxResults == 2        \* length of a Source result page seen by the bot
MaxPipeline == 3       \* length of a Source result page in the pipeline-only specification
MaxIndex == 2          \* largest index a navigation token carries

Chats == 1..NumChats
ItemTypes == {"movie", "tv"}

----------------------------------------------------------------------------
(* Strings *)

Digit(d) == CASE d = 0 -> "0" [] d = 1 -> "1" [] d = 2 -> "2" [] d = 3 -> "3"
              [] d = 4 -> "4" [] d = 5 -> "5" [] d = 6 -> "6" [] d = 7 -> "7"
              [] d = 8 -> "8" [] OTHER -> "9"

DigitChars == {"0", "1", "2", "3", "4", "5", "6", "7", "8", "9"}

DigitVal(c) == CHOOSE d \in 0..9 : Digit(d) = c

RECURSIVE NatToStr(_)
NatToStr(n) == IF n < 10 THEN <<Digit(n)>>
               ELSE NatToStr(n \div 10) \o <<Digit(n % 10)>>

\* str(i) as the f-string at lines 262 and 264 formats an index
IntToStr(i) == IF i < 0 THEN <<"-">> \o NatToStr(0 - i) ELSE NatToStr(i)

RECURSIVE DigitsToNat(_)
DigitsToNat(s) == IF Len(s) = 0 THEN 0
                  ELSE 10 * DigitsToNat(SubSeq(s, 1, Len(s) - 1)) + DigitVal(s[Len(s)])

AllDigits(s) == Len(s) > 0 /\ \A k \in 1..Len(s) : s[k] \in DigitChars

\* int(s) at line 418: ok = FALSE stands for ValueError
ParseInt(s) ==
    IF AllDigits(s) THEN [ok |-> TRUE, val |-> DigitsToNat(s)]
    ELSE IF Len(s) > 1 /\ s[1] \in {"-", "+"} /\ AllDigits(Tail(s))
         THEN [ok |-> TRUE,
               val |-> IF s[1] = "-" THEN 0 - DigitsToNat(Tail(s)) ELSE DigitsToNat(Tail(s))]
         ELSE [ok |-> FALSE, val |-> 0]

\* s.split(sep): the fields between the separators
RECURSIVE SplitFrom(_, _, _, _)
SplitFrom(s, sep, k, cur) ==
    IF k > Len(s) THEN <<cur>>
    ELSE IF s[k] = sep THEN <<cur>> \o SplitFrom(s, sep, k + 1, <<>>)
         ELSE SplitFrom(s, sep, k + 1, Append(cur, s[k]))

Split(s, sep) == SplitFrom(s, sep, 1, <<>>)

\* str(uuid.uuid4()): hex digits and hyphens, never an underscore
IdStr(k) == <<"a", "-", Digit(k)>>

ListIds == {IdStr(k) : k \in 1..MaxLists}

\* An id generator that may repeat an id already in use
uuid4Colliding(used) == ListIds

\* uuid4 never repeats an id; the ids are handed out in a fixed order
uuid4(used) ==
    LET free == {k \in 1..MaxLists : IdStr(k) \notin used}
    IN IF free = {} THEN {}
       ELSE {IdStr(CHOOSE k \in free : \A j \in free : k <= j)}

PagePrefix == <<"p", "a", "g", "e">>

\* f"page_{list_id}_{index}" at lines 262 and 264
PageToken(list_id, index) == PagePrefix \o <<"_">> \o list_id \o <<"_">> \o IntToStr(index)

NoopToken == <<"n", "o", "o", "p">>

----------------------------------------------------------------------------
(* The Translator and the Source (TMDb) as the pipeline sees them *)

\* What ts.translate_text returns for a non-empty text
Translated(text) == <<"ru">> \o text

\* A translator wrapper that loses the text when the library raises
translate_text_dropping(text, trOk) ==
    IF text = <<>> THEN <<>>
    ELSE IF trOk THEN Translated(text)
         ELSE <<>>

\* translate_text_blocking; trOk = FALSE: the translators library raises
translate_text_blocking(text, trOk) ==
    IF text = <<>> THEN <<>>
    ELSE IF trOk THEN Translated(text)
         ELSE text

TrailerUrl(key) == <<"https://www.youtube.com/watch?v=", key>>

\* A parse that keeps the last matching entry instead of the first
_parse_trailer_last(videos) ==
    LET m == SelectSeq(videos, LAMBDA v : v.type = "Trailer" /\ v.site = "YouTube")
    IN IF m = <<>> THEN <<>> ELSE TrailerUrl(m[Len(m)].key)

\* _parse_trailer: the first YouTube trailer of the list, <<>> for None
RECURSIVE _parse_trailer(_)
_parse_trailer(videos) ==
    IF videos = <<>> THEN <<>>
    ELSE IF Head(videos).type = "Trailer" /\ Head(videos).site = "YouTube"
         THEN TrailerUrl(Head(videos).key)
         ELSE _parse_trailer(Tail(videos))

PosterUrl(poster_path) == <<"https://image.tmdb.org/t/p/w780", poster_path>>

\* A wrapper that hands every text, empty or not, to the library
ts_calls_unguarded(text) == 1

\* Lines 34-35: the calls of ts.translate_text that translate_text_blocking
\* makes ("if not text: return" comes first)
ts_calls(text) == IF text = <<>> THEN 0 ELSE 1

\* _get_item_details_blocking raises (raise_for_status, timeout) when det.ok = FALSE
DetailsRaises(det) == ~det.ok

\* _enrich_item_data for one item; ext = [det, trOk] are the outcomes of the
\* detail fetch and of the translator for this item
_enrich_item_data(item, item_type, ext) ==
    IF DetailsRaises(ext.det)
    THEN [ok |-> FALSE, err |-> "HTTPError", item |-> item, translator_calls |-> 0]
    ELSE LET overview_ru == IF ext.det.overview # <<>> THEN ext.det.overview
                            ELSE translate_text_blocking(item.overview, ext.trOk)
         IN [ok |-> TRUE, err |-> "",
             translator_calls |-> IF ext.det.overview # <<>> THEN 0
                                  ELSE ts_calls(item.overview),
             item |-> [id |-> item.id,
                       date |-> item.date,
                       poster_path |-> item.poster_path,
                       item_type |-> item_type,
                       overview |-> overview_ru,
                       trailer_url |-> _parse_trailer(ext.det.videos),
                       poster_url |-> PosterUrl(item.poster_path)]]

\* [await _enrich_item_data(m, t) for m in items]: one item after the other,
\* the first exception ends the comprehension
RECURSIVE EnrichFrom(_, _, _, _, _)
EnrichFrom(items, item_type, exts, k, acc) ==
    IF k > Len(items) THEN [ok |-> TRUE, err |-> "", items |-> acc]
    ELSE LET e == _enrich_item_data(items[k], item_type, exts[k])
         IN IF e.ok THEN EnrichFrom(items, item_type, exts, k + 1, Append(acc, e.item))
            ELSE [ok |-> FALSE, err |-> e.err, items |-> <<>>]

Reverse(q) == [k \in 1..Len(q) |-> q[Len(q) + 1 - k]]

\* A collection of the results in the order the items finish, last first
EnrichAllByCompletion(items, item_type, exts) ==
    LET r == EnrichFrom(items, item_type, exts, 1, <<>>)
    IN [r EXCEPT !.items = Reverse(r.items)]

EnrichAll(items, item_type, exts) == EnrichFrom(items, item_type, exts, 1, <<>>)

\* [m for m in results if m.get("poster_path")]
WithPoster(results) == SelectSeq(results, LAMBDA m : m.poster_path # "")

\* A slice that keeps the whole list
TakeAll(s, n) == s

\* releases[:limit]
Take(s, n) == SubSeq(s, 1, IF Len(s) < n THEN Len(s) ELSE n)

\* The releases the pipeline hands to enrichment.  page1 is the answer to the
\* first discover request, page2 the answer to the region "US" request that
\* only the movie pipeline sends, and only when the first page has no item
\* with a poster.  ok = FALSE: the request raised.
Handed(item_type, page1, page2, limit) ==
    IF ~page1.ok THEN [ok |-> FALSE, items |-> <<>>]
    ELSE IF item_type = "movie" /\ WithPoster(page1.results) = <<>>
         THEN IF ~page2.ok THEN [ok |-> FALSE, items |-> <<>>]
              ELSE [ok |-> TRUE, items |-> Take(WithPoster(page2.results), limit)]
         ELSE [ok |-> TRUE, items |-> Take(WithPoster(page1.results), limit)]

\* _get_todays_top_digital_releases_blocking (item_type "movie") and
\* _get_todays_top_series_premieres_blocking (item_type "tv")
TodaysReleases(item_type, page1, page2, exts, limit) ==
    LET handed == Handed(item_type, page1, page2, limit)
    IN IF ~handed.ok THEN [ok |-> FALSE, err |-> "HTTPError", items |-> <<>>]
       ELSE EnrichAll(handed.items, item_type, exts)

\* The asyncio.sleep(0.4) calls (line 121) of a pipeline call: one at the end
\* of every enrichment that is reached and whose detail fetch does not raise
PipelineSleeps(item_type, page1, page2, exts, limit) ==
    LET handed == Handed(item_type, page1, page2, limit)
    IN Cardinality({k \in 1..Len(handed.items) :
                      \A j \in 1..k : ~DetailsRaises(exts[j].det)})

\* limit=5, the default every caller passes
Limit == 5

----------------------------------------------------------------------------
(* Rendering *)

\* The title prefixes the handlers pass to format_item_message
Prefix(tag, arg) == [tag |-> tag, arg |-> arg]

TodayPrefix(item_type) ==
    IF item_type = "movie" THEN Prefix("today_movie", 0) ELSE Prefix("today_tv", 0)

\* item_date_obj.year, for dates counted in days
YearOf(date) == date \div 365

\* pagination_handler, lines 425-438: the prefix recomputed from the item's
\* date; date 0 stands for a missing or unparseable date
PagePrefixOf(item, today) ==
    IF item.date = 0 THEN Prefix("plain", 0)
    ELSE IF item.item_type = "movie"
         THEN IF item.date = today THEN Prefix("today_movie", 0)
              ELSE IF item.date > today THEN Prefix("next_movie", item.date)
                   ELSE Prefix("year", YearOf(item.date))
         ELSE IF item.item_type = "tv"
              THEN IF item.date = today THEN Prefix("today_tv", 0)
                   ELSE Prefix("next_tv", item.date)
              ELSE Prefix("plain", 0)

\* A navigation row whose forward button is also built on the last item
format_item_message_forward_on_last(item, title_prefix, current_index, total_count, list_id) ==
    [text |-> [prefix |-> title_prefix, title |-> item.id, overview |-> item.overview],
     poster |-> item.poster_url,
     nav |-> IF total_count > 1
             THEN <<IF current_index > 0
                    THEN PageToken(list_id, current_index - 1) ELSE NoopToken,
                    IF current_index <= total_count - 1
                    THEN PageToken(list_id, current_index + 1) ELSE NoopToken>>
             ELSE <<>>,
     trailer |-> item.trailer_url]

\* format_item_message with is_paginated=True: the caption, the poster and the
\* callback tokens of the navigation row (none when the list has one item)
format_item_message(item, title_prefix, current_index, total_count, list_id) ==
    [text |-> [prefix |-> title_prefix, title |-> item.id, overview |-> item.overview],
     poster |-> item.poster_url,
     nav |-> IF total_count > 1
             THEN <<IF current_index > 0
                    THEN PageToken(list_id, current_index - 1) ELSE NoopToken,
                    IF current_index < total_count - 1
                    THEN PageToken(list_id, current_index + 1) ELSE NoopToken>>
             ELSE <<>>,
     trailer |-> item.trailer_url]

----------------------------------------------------------------------------
(* The Messaging Sink *)

\* One call on the sink as a handler's trace records it: what was asked,
\* whether the sink accepted it, and the rendered item it carried (if any)
Call(op, ok, text, msg) == [op |-> op, ok |-> ok, text |-> text, msg |-> msg]

NoMsg == <<>>

\* Navigation rows are only ever attached to photo messages (reply_photo,
\* send_photo, edit_message_media)
NavMessageKind == "photo"

\* editMessageText is refused for a message that has no text (lines 522-525
\* rely on this BadRequest)
EditTextAccepted(kind, sinkOk) == sinkOk /\ kind = "text"

----------------------------------------------------------------------------
(* The Source for today, and the outcomes of the calls on it *)

\* Dates are counted in days, 365 to the year
Today == 739492

RawItem(id, poster_path, overview, date) ==
    [id |-> id, poster_path |-> poster_path, overview |-> overview, date |-> date]

\* Result lists of n items; the item at position j has id j
ResultsOf(n, posters, overviews, dates) ==
    {r \in [1..n -> {RawItem(j, p, o, d) : j \in 1..n, p \in posters, o \in overviews, d \in dates}] :
        \A j \in 1..n : r[j].id = j}

ResultLists(max, posters, overviews, dates) ==
    UNION {ResultsOf(n, posters, overviews, dates) : n \in 0..max}

\* first: the results of the first discover request of a pipeline call;
\* second: the results of the region "US" request, which is only sent after a
\* first page without any poster
Catalogs(firsts, seconds) ==
    {c \in [first : firsts, second : seconds] : WithPoster(c.first) # <<>> => c.second = <<>>}

\* The answer to a request: the results, or a failure (raise_for_status, timeout)
Page(results, requestOk) == [ok |-> requestOk, results |-> IF requestOk THEN results ELSE <<>>]

Details(ok, overview, videos) == [ok |-> ok, overview |-> overview, videos |-> videos]

Video(type, site, key) == [type |-> type, site |-> site, key |-> key]

Exts(n, details, trOks) == [1..n -> [det : details, trOk : trOks]]

\* What the Source and the Translator answer to the bot
BotCatalogs ==
    Catalogs(ResultLists(MaxResults, {"", "/p"}, {<<"sum">>}, {Today}),
             ResultLists(MaxResults, {"/p"}, {<<"sum">>}, {Today}))

BotDetails == {Details(FALSE, <<>>, <<>>), Details(TRUE, <<>>, <<>>)}

BotExts(n) == Exts(n, BotDetails, {TRUE})

\* The page whose results the pipeline used
PageUsed(item_type, page1, page2) ==
    IF page1.ok /\ item_type = "movie" /\ WithPoster(page1.results) = <<>>
    THEN page2 ELSE page1

HandedItems(item_type, page1, page2, limit) == Handed(item_type, page1, page2, limit).items

\* Callback data that reaches pagination_handler (pattern "^page_")
Malformed ==
    {PagePrefix \o <<"_">> \o IdStr(1),
     PagePrefix \o <<"_">> \o IdStr(1) \o <<"_", "x">>,
     PagePrefix \o <<"_">> \o IdStr(1) \o <<"_", "0", "_", "0">>}

Tokens == {PageToken(id, i) : id \in ListIds, i \in (0 - 1)..MaxIndex} \cup Malformed

----------------------------------------------------------------------------
(* Initial state: bot_data is empty, no job is running *)

NoLists == [id \in {} |-> <<>>]

IdleJob ==
    [pc |-> "idle", item_type |-> "movie", items |-> <<>>, todo |-> <<>>, sent |-> <<>>,
     result |-> ""]

Init ==
    /\ chat_ids = {}
    /\ item_lists = NoLists
    /\ job = IdleJob
    /\ h = [name |-> "init"]
    /\ tmdb \in BotCatalogs

\* A store that keeps only the session committed last
CommitLatest(lists, list_id, items) == [id \in {list_id} |-> items]

\* bot_data.setdefault("item_lists", {})[list_id] = items
Commit(lists, list_id, items) ==
    [id \in DOMAIN lists \cup {list_id} |-> IF id = list_id THEN items ELSE lists[id]]

\* A command that would commit only once its reply has been accepted
ReplyThenCommit(lists, list_id, items, replyOk) ==
    IF replyOk THEN Commit(lists, list_id, items) ELSE lists

\* Lines 321-324: the assignment to item_lists comes before reply_photo, so
\* the store holds the list whether or not the sink accepts the reply
CommitThenReply(lists, list_id, items, replyOk) == Commit(lists, list_id, items)

----------------------------------------------------------------------------
(* /start and /stop *)

\* start_command: subscribe, then help_command replies
start_command(chat, replyOk) ==
    /\ chat_ids' = chat_ids \cup {chat}
    /\ h' = [name |-> "start", chat |-> chat,
             outcome |-> IF replyOk THEN "replied" ELSE "unhandled"]
    /\ UNCHANGED <<item_lists, job, tmdb>>

\* stop_command
stop_command(chat, replyOk) ==
    /\ chat_ids' = chat_ids \ {chat}
    /\ h' = [name |-> "stop", chat |-> chat,
             outcome |-> IF replyOk THEN "replied" ELSE "unhandled"]
    /\ UNCHANGED <<item_lists, job, tmdb>>

----------------------------------------------------------------------------
(* /releases_movie and /releases_series *)

Notice(tag) == [prefix |-> Prefix(tag, 0), title |-> 0, overview |-> <<>>]

\* The except branch of a command: one reply_text with the error notice,
\* which is itself outside any try
ErrorNotice(trace, noticeOk, lists, list_id) ==
    [trace |-> Append(trace, Call("reply_text", noticeOk, Notice("error"), NoMsg)),
     outcome |-> IF noticeOk THEN "error_notice" ELSE "unhandled",
     lists |-> lists, list_id |-> list_id]

\* releases_movie_command / releases_series_command.  s1, s2, s3: whether
\* the sink accepts the "searching" notice, the main reply (photo or "none
\* found") and the error notice
ReleasesRun(lists, item_type, page1, page2, exts, s1, s2, s3, list_id) ==
    LET t1 == <<Call("reply_text", s1, Notice("searching"), NoMsg)>>
        res == TodaysReleases(item_type, page1, page2, exts, Limit)
    IN IF ~s1
       THEN [trace |-> t1, outcome |-> "unhandled", lists |-> lists, list_id |-> <<>>]
       ELSE IF ~res.ok
            THEN ErrorNotice(t1, s3, lists, <<>>)
            ELSE IF res.items = <<>>
                 THEN LET t2 == Append(t1, Call("reply_text", s2, Notice("none_found"), NoMsg))
                      IN IF s2 THEN [trace |-> t2, outcome |-> "none_found",
                                     lists |-> lists, list_id |-> <<>>]
                         ELSE ErrorNotice(t2, s3, lists, <<>>)
                 ELSE LET m == format_item_message(res.items[1], TodayPrefix(item_type),
                                                   0, Len(res.items), list_id)
                          t2 == Append(t1, Call("reply_photo", s2, m.text, <<m>>))
                      IN IF s2 THEN [trace |-> t2, outcome |-> "sent",
                                     lists |-> CommitThenReply(lists, list_id, res.items, s2),
                                     list_id |-> list_id]
                         ELSE ErrorNotice(t2, s3, CommitThenReply(lists, list_id, res.items, s2),
                                          list_id)

\* The sleeps a release command executes between its (k-1)-th and its k-th
\* sink call: those of the pipeline, which runs between the first two calls
SleepsBefore(hh, k) == IF k = 2 THEN hh.sleeps ELSE 0

\* sleeps: the asyncio.sleep calls between the "searching" notice and the
\* reply that follows it
releases_command(item_type, page1, page2, exts, s1, s2, s3, list_id) ==
    LET run == ReleasesRun(item_lists, item_type, page1, page2, exts, s1, s2, s3, list_id)
    IN /\ item_lists' = run.lists
       /\ h' = [name |-> "releases", item_type |-> item_type,
                source |-> PageUsed(item_type, page1, page2),
                sleeps |-> PipelineSleeps(item_type, page1, page2, exts, Limit),
                list_id |-> run.list_id, outcome |-> run.outcome, trace |-> run.trace]
       /\ UNCHANGED <<chat_ids, job, tmdb>>

----------------------------------------------------------------------------
(* Pagination *)

\* Lines 416-419: "_, list_id, new_index_str = data.split('_')" and int();
\* ok = FALSE stands for the ValueError the handler swallows
ParseToken(data) ==
    LET fields == Split(data, "_")
    IN IF Len(fields) # 3 THEN [ok |-> FALSE, list_id |-> <<>>, index |-> 0]
       ELSE LET n == ParseInt(fields[3])
            IN IF n.ok THEN [ok |-> TRUE, list_id |-> fields[2], index |-> n.val]
               ELSE [ok |-> FALSE, list_id |-> <<>>, index |-> 0]

\* Line 420: bot_data.get("item_lists", {}).get(list_id); <<>> for None
GetList(lists, list_id) == IF list_id \in DOMAIN lists THEN lists[list_id] ELSE <<>>

\* Line 421: "not items or not (0 <= new_index < len(items))"
NotFound(items, new_index) == items = <<>> \/ ~(0 <= new_index /\ new_index < Len(items))

\* A lookup that takes the zero-based index for a position
ItemAtPosition(items, new_index) == items[IF new_index = 0 THEN 1 ELSE new_index]

\* Line 424: items[new_index]
ItemAt(items, new_index) == items[new_index + 1]

\* A render that answers with a new photo message
EditMediaBySending(editOk, m) == Call("reply_photo", editOk, m.text, <<m>>)

\* Lines 441-442: query.edit_message_media(InputMediaPhoto(...), reply_markup)
EditMedia(editOk, m) == Call("edit_message_media", editOk, m.text, <<m>>)

\* pagination_handler.  ansOk, editOk: whether the sink accepts query.answer()
\* and the edit; today: the clock read at line 431
PageRun(lists, data, ansOk, editOk, today) ==
    LET t1 == <<Call("answer", ansOk, Notice(""), NoMsg)>>
        tok == ParseToken(data)
        items == GetList(lists, tok.list_id)
    IN IF ~ansOk THEN [trace |-> t1, outcome |-> "unhandled", lookup |-> <<>>]
       ELSE IF ~tok.ok THEN [trace |-> t1, outcome |-> "ignored", lookup |-> <<>>]
       ELSE IF NotFound(items, tok.index)
            THEN LET ok == EditTextAccepted(NavMessageKind, editOk)
                 IN [trace |-> Append(t1, Call("edit_message_text", ok, Notice("stale"), NoMsg)),
                     outcome |-> IF ok THEN "stale_notice" ELSE "unhandled",
                     lookup |-> <<>>]
            ELSE LET item == ItemAt(items, tok.index)
                     m == format_item_message(item, PagePrefixOf(item, today),
                                              tok.index, Len(items), tok.list_id)
                 IN [trace |-> Append(t1, EditMedia(editOk, m)),
                     outcome |-> IF editOk THEN "rendered" ELSE "edit_failed",
                     lookup |-> <<item>>]

pagination_handler(data, ansOk, editOk, today) ==
    LET run == PageRun(item_lists, data, ansOk, editOk, today)
    IN /\ h' = [name |-> "page", data |-> data, token |-> ParseToken(data),
                outcome |-> run.outcome, lookup |-> run.lookup, trace |-> run.trace]
       /\ UNCHANGED <<chat_ids, item_lists, job, tmdb>>

----------------------------------------------------------------------------
(* The daily jobs *)

\* A snapshot that may list a chat more than once
OrdersWithRepeats(chats) == [1..Cardinality(chats) -> chats]

\* list(chat_ids): the subscribed chats, each once, in the order the set
\* iterates them
Orders(chats) ==
    {o \in [1..Cardinality(chats) -> chats] : \A i, j \in DOMAIN o : i # j => o[i] # o[j]}

JobDone(j, result) == [j EXCEPT !.pc = "done", !.result = result]

\* daily_movie_check_job / daily_series_check_job up to the loop: the early
\* returns, the pipeline call inside the try, the snapshot of the chats
job_start(item_type, page1, page2, exts, order) ==
    /\ job.pc \in {"idle", "done"}
    /\ LET res == TodaysReleases(item_type, page1, page2, exts, Limit)
           fresh == [IdleJob EXCEPT !.item_type = item_type]
       IN job' = IF chat_ids = {} THEN JobDone(fresh, "no_chats")
                 ELSE IF ~res.ok THEN JobDone(fresh, "failed")
                 ELSE IF res.items = <<>> THEN JobDone(fresh, "no_items")
                 ELSE [fresh EXCEPT !.pc = "send", !.items = res.items, !.todo = order]
    /\ UNCHANGED <<chat_ids, item_lists, h, tmdb>>

\* One turn of the loop, lines 637-641: commit under a fresh id, render the
\* first item, send_photo.  A refused send raises into the except around the
\* whole loop
job_send(sendOk, list_id) ==
    /\ job.pc = "send"
    /\ item_lists' = Commit(item_lists, list_id, job.items)
    /\ LET turn == [job EXCEPT !.todo = Tail(job.todo),
                                !.sent = Append(job.sent, Head(job.todo))]
       IN job' = IF sendOk THEN [turn EXCEPT !.pc = "sleep"] ELSE JobDone(turn, "failed")
    /\ UNCHANGED <<chat_ids, h, tmdb>>

\* asyncio.sleep(1) at line 642, then the next turn or the end of the loop
job_sleep ==
    /\ job.pc = "sleep"
    /\ job' = IF job.todo = <<>> THEN JobDone(job, "completed")
              ELSE [job EXCEPT !.pc = "send"]
    /\ UNCHANGED <<chat_ids, item_lists, h, tmdb>>

----------------------------------------------------------------------------
(* The pipeline on its own *)

\* One call of _get_todays_top_digital_releases_blocking(limit) or
\* _get_todays_top_series_premieres_blocking(limit), with what it was handed
\* and what it returned
pipeline_call(item_type, page1, page2, exts, limit) ==
    /\ h' = [name |-> "pipeline", item_type |-> item_type, limit |-> limit,
             fetched |-> Handed(item_type, page1, page2, limit).ok,
             handed |-> HandedItems(item_type, page1, page2, limit),
             exts |-> exts,
             res |-> TodaysReleases(item_type, page1, page2, exts, limit)]
    /\ UNCHANGED <<chat_ids, item_lists, job, tmdb>>

----------------------------------------------------------------------------
(* Steps *)

\* The sink's answers to the up to three calls of a command; an answer that
\* is never asked for is FALSE
SinkAnswers ==
    {a \in [1..3 -> BOOLEAN] : (~a[1] => ~a[2]) /\ ((~a[1] \/ a[2]) => ~a[3])}

\* The answers to the one or two discover requests of a pipeline call
RequestOutcomes(item_type) ==
    {r \in [1..2 -> BOOLEAN] :
        (item_type = "movie" /\ r[1] /\ WithPoster(tmdb.first) = <<>>) \/ ~r[2]}

StartStep == \E chat \in Chats, ok \in BOOLEAN : start_command(chat, ok)

StopStep == \E chat \in Chats, ok \in BOOLEAN : stop_command(chat, ok)

ReleasesStep ==
    \E item_type \in ItemTypes :
      \E r \in RequestOutcomes(item_type) :
        LET page1 == Page(tmdb.first, r[1])
            page2 == Page(tmdb.second, r[2])
        IN \E exts \in BotExts(Len(HandedItems(item_type, page1, page2, Limit))) :
             \E a \in SinkAnswers, list_id \in uuid4(DOMAIN item_lists) :
               releases_command(item_type, page1, page2, exts, a[1], a[2], a[3], list_id)

PageStep ==
    \E data \in Tokens, ansOk, editOk \in BOOLEAN :
        pagination_handler(data, ansOk, editOk, Today)

JobStartStep ==
    \E item_type \in ItemTypes :
      \E r \in RequestOutcomes(item_type) :
        LET page1 == Page(tmdb.first, r[1])
            page2 == Page(tmdb.second, r[2])
        IN \E exts \in BotExts(Len(HandedItems(item_type, page1, page2, Limit))),
              order \in Orders(chat_ids) :
                job_start(item_type, page1, page2, exts, order)

JobSendStep ==
    \E sendOk \in BOOLEAN, list_id \in uuid4(DOMAIN item_lists) : job_send(sendOk, list_id)

JobSleepStep == job_sleep

----------------------------------------------------------------------------
(* Specifications *)

\* The interactive handlers: the release commands and navigation
NextChat == ReleasesStep \/ PageStep

SpecChat == Init /\ [][NextChat]_vars

\* The subscription commands and the daily jobs
NextDaily == StartStep \/ StopStep \/ JobStartStep \/ JobSendStep \/ JobSleepStep

SpecDaily == Init /\ [][NextDaily]_vars

\* The subscription commands and the daily jobs on a day with one release
InitOneRelease ==
    /\ chat_ids = {}
    /\ item_lists = NoLists
    /\ job = IdleJob
    /\ h = [name |-> "init"]
    /\ tmdb \in {c \in BotCatalogs : Len(c.first) = 1 /\ WithPoster(c.first) # <<>>}

SpecSubscribe == InitOneRelease /\ [][NextDaily]_vars

\* The whole bot
Next == NextChat \/ NextDaily

Spec == Init /\ [][Next]_vars

\* One pipeline call on a richer Source: empty summaries, details with and
\* without an overview and videos, a Translator that may raise
SmallLimit == 2

PipelineCatalogs ==
    Catalogs(ResultLists(MaxPipeline, {"", "/p"}, {<<>>, <<"sum">>}, {Today}),
             ResultLists(MaxPipeline, {"/p"}, {<<"sum">>}, {Today}))

PipelineDetails ==
    {Details(FALSE, <<>>, <<>>),
     Details(TRUE, <<>>, <<>>),
     Details(TRUE, <<"det">>, <<Video("Teaser", "YouTube", "k1"), Video("Trailer", "YouTube", "k2")>>)}

PipelineExts(n) == Exts(n, PipelineDetails, BOOLEAN)

InitPipeline ==
    /\ chat_ids = {}
    /\ item_lists = NoLists
    /\ job = IdleJob
    /\ h = [name |-> "init"]
    /\ tmdb \in PipelineCatalogs

PipelineStep ==
    /\ h.name = "init"
    /\ \E item_type \in ItemTypes, limit \in {SmallLimit, Limit} :
         \E r \in RequestOutcomes(item_type) :
           LET page1 == Page(tmdb.first, r[1])
               page2 == Page(tmdb.second, r[2])
           IN \E exts \in PipelineExts(Len(HandedItems(item_type, page1, page2, limit))) :
                pipeline_call(item_type, page1, page2, exts, limit)

\* Line 127: the one size the poster URL is formed for
Variants == <<"w780">>

\* The media resolution of _enrich_item_data (line 127): the URL of the
\* poster is formed from the pointer and stored as it is.  reachable[v] says
\* whether the media host would serve variant v; the code sends the host no
\* request, so probes, the requests sent to it, is empty.
resolve_media(poster_path, reachable) ==
    [url |-> PosterUrl(poster_path), probes |-> <<>>]

resolve_call(poster_path, reachable) ==
    /\ h' = [name |-> "resolve", poster_path |-> poster_path, reachable |-> reachable,
             res |-> resolve_media(poster_path, reachable)]
    /\ UNCHANGED <<chat_ids, item_lists, job, tmdb>>

ResolveStep ==
    /\ h.name = "init"
    /\ \E poster_path \in {"/p", "/q"}, reachable \in [DOMAIN Variants -> BOOLEAN] :
         resolve_call(poster_path, reachable)

NextPipeline == PipelineStep \/ ResolveStep

SpecPipeline == InitPipeline /\ [][NextPipeline]_vars

----------------------------------------------------------------------------
(* The helpers on their own *)

MaxVideos == 3

\* The "results" of a details answer's videos: up to MaxVideos entries;
\* <<>> also stands for a missing list
VideoLists ==
    UNION {[1..n -> {Video(t, w, k) : t \in {"Trailer", "Teaser"},
                                      w \in {"YouTube", "Vimeo"},
                                      k \in {"k1", "k2"}}] : n \in 0..MaxVideos}

\* One call of _parse_trailer
parse_trailer_call(videos) ==
    /\ h' = [name |-> "trailer", videos |-> videos, res |-> _parse_trailer(videos)]
    /\ UNCHANGED <<chat_ids, item_lists, job, tmdb>>

ParseTrailerStep ==
    /\ h.name = "init"
    /\ \E videos \in VideoLists : parse_trailer_call(videos)

InitHelpers ==
    /\ chat_ids = {}
    /\ item_lists = NoLists
    /\ job = IdleJob
    /\ h = [name |-> "init"]
    /\ tmdb = [first |-> <<>>, second |-> <<>>]

NextHelpers == ParseTrailerStep

SpecHelpers == InitHelpers /\ [][NextHelpers]_vars

----------------------------------------------------------------------------
(* Photos with a caption *)

\* context.bot.username
BotUsername == <<"b">>

MaxCaption == 3

MaxEntities == 1

\* caption[a:b] for 0 <= a, 0 <= b
Slice(caption, a, b) ==
    LET hi == IF b < Len(caption) THEN b ELSE Len(caption)
    IN IF a >= hi THEN <<>> ELSE SubSeq(caption, a + 1, hi)

\* A test that is satisfied by a mention of anyone
is_anyone_mentioned(caption, caption_entities, username) ==
    \E k \in DOMAIN caption_entities : caption_entities[k].type = "mention"

\* Lines 580-591: the loop over caption_entities sets is_bot_mentioned at the
\* first entity of type MENTION whose slice of the caption is "@" + username
is_bot_mentioned(caption, caption_entities, username) ==
    \E k \in DOMAIN caption_entities :
        LET entity == caption_entities[k]
        IN /\ entity.type = "mention"
           /\ Slice(caption, entity.offset, entity.offset + entity.length) = <<"@">> \o username

\* Line 699: filters.PHOTO & filters.CaptionEntity(MENTION)
PhotoFilter(message) ==
    \E k \in DOMAIN message.caption_entities : message.caption_entities[k].type = "mention"

PhotoDone(message, trace, outcome) ==
    /\ h' = [name |-> "photo", message |-> message, outcome |-> outcome, trace |-> trace]
    /\ UNCHANGED <<chat_ids, item_lists, job, tmdb>>

\* Lines 618-620: except Exception edits the status message; an exception of
\* that edit leaves the handler
PhotoExcept(message, trace) ==
    \E errorOk \in BOOLEAN :
        PhotoDone(message,
                  Append(trace, Call("edit_text", errorOk, Notice("photo_error"), NoMsg)),
                  IF errorOk THEN "error" ELSE "unhandled")

\* One call of the try block (lines 597-617) as the trace records it
Tried(trace, op, ok, text, msg) == Append(trace, Call(op, ok, text, msg))

\* Line 617: await temp_message.delete()
PhotoDelete(message, trace) ==
    \E ok \in BOOLEAN :
        LET t == Tried(trace, "delete", ok, Notice(""), NoMsg)
        IN IF ok THEN PhotoDone(message, t, "recommended") ELSE PhotoExcept(message, t)

\* What _find_movie_by_keywords_blocking returns: None (<<>>) or a film with a
\* poster
FoundMovies == {<<>>, <<RawItem(1, "/p", <<"sum">>, Today)>>}

\* Lines 614-616: enrichment and the recommendation
PhotoRecommend(message, trace, movie) ==
    \E exts \in BotExts(1), ok \in BOOLEAN :
        LET e == _enrich_item_data(movie, "movie", exts[1])
            t == Tried(trace, "details", e.ok, Notice(""), NoMsg)
            m == format_item_message(e.item, Prefix("photo", 0), 0, 1, <<>>)
            t2 == Tried(t, "send_photo", ok, m.text, <<m>>)
        IN IF ~e.ok THEN ok /\ PhotoExcept(message, t)
           ELSE IF ok THEN PhotoDelete(message, t2) ELSE PhotoExcept(message, t2)

\* Lines 610-612: no film was found
PhotoNoMovie(message, trace) ==
    \E ok \in BOOLEAN :
        LET t == Tried(trace, "edit_text", ok, Notice("photo_no_movie"), NoMsg)
        IN IF ok THEN PhotoDone(message, t, "no_movie") ELSE PhotoExcept(message, t)

\* Lines 607-608: the keywords are shown and the film is looked for
PhotoSearch(message, trace) ==
    \E ok \in BOOLEAN, found \in FoundMovies :
        LET t == Tried(trace, "edit_text", ok, Notice("photo_keywords"), NoMsg)
            t2 == Tried(t, "find_movie", found # <<>>, Notice(""), NoMsg)
        IN IF ~ok THEN found = <<>> /\ PhotoExcept(message, t)
           ELSE IF found = <<>> THEN PhotoNoMovie(message, t2)
           ELSE PhotoRecommend(message, t2, found[1])

\* Lines 603-605: no keywords
PhotoFailed(message, trace) ==
    \E ok \in BOOLEAN :
        LET t == Tried(trace, "edit_text", ok, Notice("photo_failed"), NoMsg)
        IN IF ok THEN PhotoDone(message, t, "no_keywords") ELSE PhotoExcept(message, t)

\* Lines 600-601: keywords = <<>> stands for None (the Gemini request raised)
\* and for an empty answer
PhotoAnalyse(message, trace) ==
    \E ok \in BOOLEAN, keywords \in {<<>>, <<"k">>} :
        LET t == Tried(trace, "edit_text", ok, Notice("photo_analysing"), NoMsg)
            t2 == Tried(t, "generate_content", keywords # <<>>, Notice(""), NoMsg)
        IN IF ~ok THEN keywords = <<>> /\ PhotoExcept(message, t)
           ELSE IF keywords = <<>> THEN PhotoFailed(message, t2)
           ELSE PhotoSearch(message, t2)

\* photo_handler; get_file stands for get_file, download_as_bytearray and
\* Image.open (lines 597-599)
photo_handler(message) ==
    IF ~is_bot_mentioned(message.caption, message.caption_entities, BotUsername)
    THEN PhotoDone(message, <<>>, "ignored")
    ELSE \E tempOk, fileOk \in BOOLEAN :
           LET t1 == <<Call("send_message", tempOk, Notice("photo_received"), NoMsg)>>
               t2 == Tried(t1, "get_file", fileOk, Notice(""), NoMsg)
           IN IF ~tempOk THEN fileOk /\ PhotoDone(message, t1, "unhandled")
              ELSE IF fileOk THEN PhotoAnalyse(message, t2) ELSE PhotoExcept(message, t2)

CaptionChars == {"@", "b", "x"}

Captions == UNION {[1..n -> CaptionChars] : n \in 0..MaxCaption}

Entities ==
    [type : {"mention", "hashtag"}, offset : 0..MaxCaption, length : 1..3]

\* The entities of a message lie within its caption
PhotoMessages ==
    {message \in [caption : Captions,
                  caption_entities : UNION {[1..n -> Entities] : n \in 0..MaxEntities}] :
        \A k \in DOMAIN message.caption_entities :
            message.caption_entities[k].offset + message.caption_entities[k].length
                <= Len(message.caption)}

\* A photo message reaches photo_handler through the filter of line 699
PhotoStep ==
    /\ h.name = "init"
    /\ \E message \in PhotoMessages :
         IF PhotoFilter(message) THEN photo_handler(message)
         ELSE PhotoDone(message, <<>>, "filtered")

NextPhoto == PhotoStep

SpecPhoto == InitHelpers /\ [][NextPhoto]_vars

----------------------------------------------------------------------------
(* /next_movie and /next_series *)

\* search_days=90 (lines 198, 226), cut to a window that is scanned exhaustively
SearchDays == 2

\* The answer to one discover request of the scan.  "ok": a 2xx answer with
\* results; "raise": requests.get raises (timeout, connection error);
\* "http_json": an error status whose body is a JSON object without
\* "results"; "http_other": an error status whose body is not JSON
Answer(status, results) ==
    [status |-> status, results |-> IF status = "ok" THEN results ELSE <<>>]

Unasked == Answer("unasked", <<>>)

FailStatuses == {"raise", "http_json", "http_other"}

\* requests.get, raise_for_status where the code calls it (checked), then
\* r.json().get("results", [])
ReadResults(answer, checked) ==
    IF answer.status = "ok" THEN [ok |-> TRUE, results |-> answer.results]
    ELSE IF answer.status = "http_json" /\ ~checked THEN [ok |-> TRUE, results |-> <<>>]
         ELSE [ok |-> FALSE, results |-> <<>>]

\* One day of the scan, lines 202-211 (movie) and 230-235 (tv): the releases
\* with a poster that the day yields, and the requests that were sent.  Only
\* the region "US" request of the movie scan is followed by raise_for_status.
DayReleases(item_type, day) ==
    LET first == ReadResults(day.first, FALSE)
    IN IF ~first.ok
       THEN [ok |-> FALSE, releases |-> <<>>, asked |-> <<day.first.status>>]
       ELSE IF item_type = "movie" /\ WithPoster(first.results) = <<>>
            THEN LET second == ReadResults(day.second, TRUE)
                 IN [ok |-> second.ok, releases |-> WithPoster(second.results),
                     asked |-> <<day.first.status, day.second.status>>]
            ELSE [ok |-> TRUE, releases |-> WithPoster(first.results),
                  asked |-> <<day.first.status>>]

\* for i in range(search_days): the first day with releases is enriched and
\* returned with its date; day 0 stands for None
RECURSIVE NextFrom(_, _, _, _, _, _)
NextFrom(item_type, days, exts, limit, i, asked) ==
    IF i > Len(days) THEN [ok |-> TRUE, items |-> <<>>, day |-> 0, asked |-> asked]
    ELSE LET d == DayReleases(item_type, days[i])
             seen == asked \o d.asked
         IN IF ~d.ok THEN [ok |-> FALSE, items |-> <<>>, day |-> 0, asked |-> seen]
            ELSE IF d.releases # <<>>
                 THEN LET e == EnrichAll(Take(d.releases, limit), item_type, exts)
                      IN [ok |-> e.ok, items |-> e.items,
                          day |-> IF e.ok THEN Today + i ELSE 0, asked |-> seen]
                 ELSE NextFrom(item_type, days, exts, limit, i + 1, seen)

\* A scan whose first day is today
NextReleasesFromToday(item_type, days, exts, limit) ==
    LET res == NextFrom(item_type, days, exts, limit, 1, <<>>)
    IN [res EXCEPT !.day = IF res.day = 0 THEN 0 ELSE res.day - 1]

\* _get_next_digital_releases_blocking (item_type "movie") and
\* _get_next_series_premieres_blocking (item_type "tv"); days[i] holds the
\* answers for the i-th day after today
NextReleases(item_type, days, exts, limit) == NextFrom(item_type, days, exts, limit, 1, <<>>)

NextPrefix(item_type, day) ==
    IF item_type = "movie" THEN Prefix("next_movie", day) ELSE Prefix("next_tv", day)

\* next_movie_command / next_series_command; s1, s2, s3 as in ReleasesRun
NextRun(lists, item_type, days, exts, s1, s2, s3, list_id) ==
    LET t1 == <<Call("reply_text", s1, Notice("searching_next"), NoMsg)>>
        res == NextReleases(item_type, days, exts, Limit)
    IN IF ~s1
       THEN [trace |-> t1, outcome |-> "unhandled", lists |-> lists, list_id |-> <<>>]
       ELSE IF ~res.ok
            THEN ErrorNotice(t1, s3, lists, <<>>)
            ELSE IF res.items = <<>>
                 THEN LET t2 == Append(t1, Call("reply_text", s2, Notice("none_in_window"), NoMsg))
                      IN IF s2 THEN [trace |-> t2, outcome |-> "none_found",
                                     lists |-> lists, list_id |-> <<>>]
                         ELSE ErrorNotice(t2, s3, lists, <<>>)
                 ELSE LET m == format_item_message(res.items[1], NextPrefix(item_type, res.day),
                                                   0, Len(res.items), list_id)
                          t2 == Append(t1, Call("reply_photo", s2, m.text, <<m>>))
                      IN IF s2 THEN [trace |-> t2, outcome |-> "sent",
                                     lists |-> CommitThenReply(lists, list_id, res.items, s2),
                                     list_id |-> list_id]
                         ELSE ErrorNotice(t2, s3, CommitThenReply(lists, list_id, res.items, s2),
                                          list_id)

next_command(item_type, days, exts, s1, s2, s3, list_id) ==
    LET run == NextRun(item_lists, item_type, days, exts, s1, s2, s3, list_id)
        res == NextReleases(item_type, days, exts, Limit)
    IN /\ item_lists' = run.lists
       /\ h' = [name |-> "next", item_type |-> item_type,
                days |-> days, ok |-> res.ok, items |-> res.items,
                asked |-> res.asked, day |-> res.day,
                list_id |-> run.list_id, outcome |-> run.outcome, trace |-> run.trace]
       /\ UNCHANGED <<chat_ids, job, tmdb>>

\* The Source's answers to a scan
Dated(results, date) == [k \in DOMAIN results |-> [results[k] EXCEPT !.date = date]]

Answers(resultLists) ==
    {Answer("ok", r) : r \in resultLists} \cup {Answer(s, <<>>) : s \in FailStatuses}

\* A series of the i-th day premieres on that day; a film that is released
\* digitally on the i-th day keeps its own release date
DayResults(item_type, i) ==
    IF item_type = "tv" THEN {<<>>, Dated(tmdb.first, Today + i)} ELSE {<<>>, tmdb.first}

\* The region "US" request is only sent after a first answer without posters
DayAnswers(item_type, i) ==
    UNION {{[first |-> a, second |-> b] :
              b \in IF /\ item_type = "movie"
                       /\ ReadResults(a, FALSE).ok
                       /\ WithPoster(ReadResults(a, FALSE).results) = <<>>
                    THEN Answers({<<>>, tmdb.second})
                    ELSE {Unasked}} :
           a \in Answers(DayResults(item_type, i))}

UnaskedDays(n) == [k \in 1..n |-> [first |-> Unasked, second |-> Unasked]]

\* The answers to the days i..n of a scan; the days after the one that ends
\* the scan are never asked for
RECURSIVE Scans(_, _, _)
Scans(item_type, i, n) ==
    IF i > n THEN {<<>>}
    ELSE UNION {{<<d>> \o rest :
                   rest \in IF /\ DayReleases(item_type, d).ok
                               /\ DayReleases(item_type, d).releases = <<>>
                            THEN Scans(item_type, i + 1, n)
                            ELSE {UnaskedDays(n - i)}} :
                d \in DayAnswers(item_type, i)}

OkExts(n) == [k \in 1..n |-> [det |-> Details(TRUE, <<>>, <<>>), trOk |-> TRUE]]

\* The items a scan hands to enrichment
NextHanded(item_type, days) ==
    NextReleases(item_type, days, OkExts(Limit), Limit).items

\* One /next_movie or /next_series per behaviour
NextCommandStep ==
    /\ h.name = "init"
    /\ \E item_type \in ItemTypes :
         \E days \in Scans(item_type, 1, SearchDays) :
           \E exts \in BotExts(Len(NextHanded(item_type, days))) :
             \E a \in SinkAnswers, list_id \in uuid4(DOMAIN item_lists) :
               next_command(item_type, days, exts, a[1], a[2], a[3], list_id)

\* A navigation request on the session a next command has just sent, on the
\* same day or on the day after
NextPageStep ==
    /\ h.name = "next" /\ h.outcome = "sent"
    /\ \E index \in {0, 1}, ansOk, editOk \in BOOLEAN, today \in {Today, Today + 1} :
         pagination_handler(PageToken(h.list_id, index), ansOk, editOk, today)

NextNext == NextCommandStep \/ NextPageStep

SpecNext == Init /\ [][NextNext]_vars

----------------------------------------------------------------------------
(* /year *)

\* Line 389: the first year /year accepts
MinYear == 1970

\* Line 399: [:3]
YearLimit == 3

\* A range test without the upper end
YearInRangeOpen(year, today) == MinYear <= year

\* Line 389: 1970 <= year <= datetime.now().year
YearInRange(year, today) == MinYear <= year /\ year <= YearOf(today)

\* Lines 384-392: the year of context.args, ok = FALSE when the command
\* replies with the usage or the "enter a valid year" notice instead
YearArg(args, today) ==
    IF args = <<>> THEN [ok |-> FALSE, notice |-> "usage", val |-> 0]
    ELSE LET y == ParseInt(args[1])
         IN IF y.ok /\ YearInRange(y.val, today)
            THEN [ok |-> TRUE, notice |-> "", val |-> y.val]
            ELSE [ok |-> FALSE, notice |-> "bad_year", val |-> 0]

\* Line 396: the day of the year of today, in the year asked for
SameDayIn(year, today) == year * 365 + (today % 365)

\* year_command; answer: the answer to its one discover request, which is
\* read without raise_for_status (lines 398-399)
YearRun(lists, args, answer, exts, s1, s2, s3, list_id, today) ==
    LET y == YearArg(args, today)
        t1 == <<Call("reply_text", s1, Notice("searching_year"), NoMsg)>>
        read == ReadResults(answer, FALSE)
        base_movies == Take(WithPoster(read.results), YearLimit)
        e == EnrichAll(base_movies, "movie", exts)
    IN IF ~y.ok
       THEN [trace |-> <<Call("reply_text", s1, Notice(y.notice), NoMsg)>>,
             outcome |-> IF s1 THEN y.notice ELSE "unhandled",
             lists |-> lists, list_id |-> <<>>]
       ELSE IF ~s1
       THEN [trace |-> t1, outcome |-> "unhandled", lists |-> lists, list_id |-> <<>>]
       ELSE IF ~read.ok
       THEN ErrorNotice(t1, s3, lists, <<>>)
       ELSE IF base_movies = <<>>
       THEN LET t2 == Append(t1, Call("reply_text", s2, Notice("none_found"), NoMsg))
            IN IF s2 THEN [trace |-> t2, outcome |-> "none_found",
                           lists |-> lists, list_id |-> <<>>]
               ELSE ErrorNotice(t2, s3, lists, <<>>)
       ELSE IF ~e.ok
       THEN ErrorNotice(t1, s3, lists, <<>>)
       ELSE LET m == format_item_message(e.items[1], Prefix("year", y.val),
                                         0, Len(e.items), list_id)
                t2 == Append(t1, Call("reply_photo", s2, m.text, <<m>>))
            IN IF s2 THEN [trace |-> t2, outcome |-> "sent",
                           lists |-> CommitThenReply(lists, list_id, e.items, s2),
                           list_id |-> list_id]
               ELSE ErrorNotice(t2, s3, CommitThenReply(lists, list_id, e.items, s2),
                                list_id)

\* asked: the requests the command sent to the Source
year_command(args, answer, exts, s1, s2, s3, list_id, today) ==
    LET run == YearRun(item_lists, args, answer, exts, s1, s2, s3, list_id, today)
    IN /\ item_lists' = run.lists
       /\ h' = [name |-> "year", args |-> args,
                asked |-> IF YearArg(args, today).ok /\ s1 THEN <<answer.status>> ELSE <<>>,
                list_id |-> run.list_id, outcome |-> run.outcome, trace |-> run.trace]
       /\ UNCHANGED <<chat_ids, job, tmdb>>

\* The arguments /year is called with: none, years around both ends of the
\* range, texts int() rejects, a negative number, a second argument
YearArgs ==
    {<<>>,
     <<NatToStr(MinYear - 1)>>, <<NatToStr(MinYear)>>,
     <<NatToStr(YearOf(Today))>>, <<NatToStr(YearOf(Today) + 1)>>,
     <<<<"1", "9", "x", "9">>>>, <<<<"-", "5">>>>,
     <<NatToStr(MinYear), <<"x">>>>}

\* Enough results to reach the limits of the pipelines (5) and of /year (3)
MaxFound == 6

YearCatalogs ==
    Catalogs(ResultLists(MaxFound, {"/p"}, {<<"sum">>}, {Today})
                \cup ResultsOf(1, {""}, {<<"sum">>}, {Today}),
             ResultLists(1, {"/p"}, {<<"sum">>}, {Today}))

InitYear ==
    /\ chat_ids = {}
    /\ item_lists = NoLists
    /\ job = IdleJob
    /\ h = [name |-> "init"]
    /\ tmdb \in YearCatalogs

\* The films of the asked year's day; an invalid argument leads to no request
YearAnswers(args) ==
    IF YearArg(args, Today).ok
    THEN Answers({<<>>, Dated(tmdb.first, SameDayIn(YearArg(args, Today).val, Today))})
    ELSE {Unasked}

YearStep ==
    \E args \in YearArgs :
      \E answer \in YearAnswers(args) :
        \E exts \in BotExts(Len(Take(WithPoster(answer.results), YearLimit))) :
          \E a \in SinkAnswers, list_id \in uuid4(DOMAIN item_lists) :
            year_command(args, answer, exts, a[1], a[2], a[3], list_id, Today)

\* One /year or one release command per behaviour, on a Source with many
\* results
OneYearStep == h.name = "init" /\ YearStep

OneReleasesStep == h.name = "init" /\ ReleasesStep

NextYear == OneYearStep \/ OneReleasesStep

SpecYear == InitYear /\ [][NextYear]_vars

----------------------------------------------------------------------------
(* Properties *)

\* A call of the trace that the sink refused / accepted
Refused(trace, op) == \E k \in DOMAIN trace : trace[k].op = op /\ ~trace[k].ok

CaptionsSent(trace, ops) ==
    {k \in DOMAIN trace : trace[k].op \in ops /\ trace[k].ok /\ trace[k].msg # NoMsg}

LastAccepted(trace) == trace # <<>> /\ trace[Len(trace)].ok

\* C1: when the sink refuses the photo of a release command but accepts the
\* call that follows, the command ends with the item's caption delivered on a
\* photo message, never with only an error notice or an unhandled error.
C1_PlaceholderFallback ==
    (h.name = "releases" /\ Refused(h.trace, "reply_photo") /\ LastAccepted(h.trace))
        => /\ CaptionsSent(h.trace, {"reply_photo"}) # {}
           /\ h.outcome \notin {"error_notice", "unhandled"}

\* C2: when every media send of a release command is refused and a text send
\* is accepted, the chat receives the item's caption exactly once, as a text
\* message.
C2_TextFallback ==
    (h.name = "releases" /\ Refused(h.trace, "reply_photo") /\ LastAccepted(h.trace)
       /\ h.trace[Len(h.trace)].op = "reply_text")
        => /\ Cardinality(CaptionsSent(h.trace, {"reply_text"})) = 1
           /\ CaptionsSent(h.trace, {"reply_photo"}) = {}

\* C3: a daily job that has ended has attempted every chat of its snapshot:
\* no chat is left in its to-do list, whatever send was refused.
C3_AllDestinationsAttempted == job.pc = "done" => job.todo = <<>>

\* The lookup of a navigation request has been reached: the token decoded
\* and query.answer() was accepted
LookedUp == h.name = "page" /\ h.token.ok /\ h.trace[1].ok

\* C4: a navigation lookup of (K, i) on a committed session K of k items
\* yields exactly the i-th committed item when 0 <= i < k, and nothing (no
\* item rendered) when i < 0 or i >= k.
C4_LookupByIndex ==
    (LookedUp /\ h.token.list_id \in DOMAIN item_lists)
        => LET items == item_lists[h.token.list_id]
               i == h.token.index
           IN IF 0 <= i /\ i < Len(items)
              THEN /\ h.lookup = <<items[i + 1]>>
                   /\ \A k \in DOMAIN h.trace :
                        h.trace[k].msg # NoMsg => h.trace[k].msg[1].text.title = items[i + 1].id
              ELSE /\ h.lookup = <<>>
                   /\ \A k \in DOMAIN h.trace : h.trace[k].msg = NoMsg

C4_Witness ==
    /\ LookedUp
    /\ h.token.list_id \in DOMAIN item_lists
    /\ Len(item_lists[h.token.list_id]) = 2
    /\ h.token.index = 1
    /\ h.lookup # <<>>

C4_WitnessOutOfRange ==
    /\ LookedUp
    /\ h.token.list_id \in DOMAIN item_lists
    /\ h.token.index = Len(item_lists[h.token.list_id])
    /\ h.lookup = <<>>

\* C5: a navigation request whose session key is not in the store ends with
\* the "request again" notice shown, never with an unhandled error.
C5_StaleSessionNotice ==
    (LookedUp /\ h.token.list_id \notin DOMAIN item_lists) => h.outcome = "stale_notice"

\* C6: the list a pipeline call returns has the length of the list handed to
\* enrichment, and its j-th element is the enrichment of the j-th handed item.
C6_OrderPreserved ==
    (h.name = "pipeline" /\ h.res.ok)
        => /\ Len(h.res.items) = Len(h.handed)
           /\ \A j \in 1..Len(h.handed) :
                h.res.items[j] = _enrich_item_data(h.handed[j], h.item_type, h.exts[j]).item

C6_Witness ==
    /\ h.name = "pipeline" /\ h.res.ok
    /\ Len(h.handed) = 3
    /\ h.exts[1] # h.exts[2] /\ h.exts[2] # h.exts[3]

\* C7: a pipeline call fails only when a Source-level list request fails;
\* a failure inside one item's enrichment never fails the call.
C7_ItemFailureContained ==
    (h.name = "pipeline" /\ h.fetched) => (h.res.ok /\ Len(h.res.items) = Len(h.handed))

\* The Translator was invoked for the j-th handed item and raised
TranslatorFailed(j) ==
    /\ h.exts[j].det.ok /\ h.exts[j].det.overview = <<>>
    /\ h.handed[j].overview # <<>>
    /\ ~h.exts[j].trOk

\* C8: a Translator failure never fails a pipeline call (a call that fails
\* after its list fetch has a detail fetch that raised), and in the returned
\* list, as long as the handed one, every item whose translation raised
\* carries its original summary.
C8_TranslationDegrades ==
    (h.name = "pipeline" /\ h.fetched)
        => IF h.res.ok
           THEN /\ Len(h.res.items) = Len(h.handed)
                /\ \A j \in 1..Len(h.handed) :
                     TranslatorFailed(j) => h.res.items[j].overview = h.handed[j].overview
           ELSE \E j \in 1..Len(h.handed) : DetailsRaises(h.exts[j].det)

C8_Witness ==
    /\ h.name = "pipeline" /\ h.res.ok
    /\ Len(h.handed) = 3
    /\ TranslatorFailed(3) /\ ~TranslatorFailed(1)

\* C9: when the Source returns n items, n within the limit, the session a
\* release command commits holds all n of them, null media pointer or not.
C9_NullMediaKept ==
    (h.name = "releases" /\ h.outcome = "sent" /\ Len(h.source.results) <= Limit)
        => Len(item_lists[h.list_id]) = Len(h.source.results)

\* C10: a committed session never changes: every key of the store stays in
\* the store with the same items at every index, whatever handler runs.
C10_ReadStable ==
    [][\A id \in DOMAIN item_lists :
          id \in DOMAIN item_lists' /\ item_lists'[id] = item_lists[id]]_vars

C10_Witness ==
    /\ h.name = "page" /\ h.outcome = "rendered"
    /\ Cardinality(DOMAIN item_lists) = 2
    /\ \E a, b \in DOMAIN item_lists : item_lists[a] # item_lists[b]

\* Every request a release command sent to the Source failed
SourceFailed ==
    \/ h.name = "releases" /\ ~h.source.ok
    \/ h.name = "next" /\ h.asked # <<>> /\ \A k \in DOMAIN h.asked : h.asked[k] \in FailStatuses

ErrorNoticeCalls(trace) == {k \in DOMAIN trace : trace[k].text = Notice("error")}

\* C11: a release command whose Source requests all failed commits no
\* session and replies with the error notice, which is what the chat sees
\* last when the sink accepts it.
C11_FetchFailureReported ==
    (SourceFailed /\ h.trace[1].ok)
        => /\ h.list_id = <<>>
           /\ ErrorNoticeCalls(h.trace) # {}
           /\ LastAccepted(h.trace) => h.outcome = "error_notice"

\* The accepted calls of a handler that hand the sink a poster by its URL;
\* for each of them the sink fetches the image and allocates a new file
UploadsByUrl(hh) ==
    {k \in DOMAIN hh.trace :
        /\ hh.trace[k].ok /\ hh.trace[k].msg # NoMsg
        /\ hh.trace[k].msg[1].poster = PosterUrl(hh.trace[k].msg[1].poster[2])}

\* C12: once a release command has delivered the first item of its session,
\* a navigation that renders that item again reuses the file the sink
\* allocated for it: it does not hand the poster over by URL a second time.
C12_HandleReused ==
    [][(/\ h.name = "releases" /\ h.outcome = "sent" /\ UploadsByUrl(h) # {}
        /\ h'.name = "page" /\ h'.outcome = "rendered"
        /\ h'.token.list_id = h.list_id /\ h'.token.index = 0)
          => UploadsByUrl(h') = {}]_vars

\* C13: the resolution of a pointer none of whose variants the media host
\* serves ends without a URL (Unavailable), after exactly 3 requests for
\* each variant.
C13_ProbesExhausted ==
    (h.name = "resolve" /\ \A v \in DOMAIN Variants : ~h.reachable[v])
        => /\ h.res.url = <<>>
           /\ Len(h.res.probes) = 3 * Len(Variants)
           /\ \A v \in DOMAIN Variants :
                Cardinality({k \in DOMAIN h.res.probes : h.res.probes[k] = v}) = 3

\* C14: the store is bounded: whatever the handlers and jobs commit, it
\* never holds as many sessions as there were commits; before it does, a
\* commit has evicted the oldest session.  (MaxLists commits are the most a
\* behaviour makes here.)
C14_StoreBounded == Cardinality(DOMAIN item_lists) < MaxLists

\* C15: a step that changes the store is one commit: it adds exactly one
\* key, which the store did not hold before, with a non-empty item list, and
\* every key the store held keeps its item list.
C15_CommitFresh ==
    [][item_lists' # item_lists
          => \E id \in DOMAIN item_lists' \ DOMAIN item_lists :
               /\ DOMAIN item_lists' = DOMAIN item_lists \cup {id}
               /\ item_lists'[id] # <<>>
               /\ \A k \in DOMAIN item_lists : item_lists'[k] = item_lists[k]]_vars

C15_Witness ==
    /\ h.name = "releases" /\ h.list_id \in DOMAIN item_lists
    /\ \E k \in DOMAIN item_lists : k # h.list_id

\* The calls that put a new message into a chat
SendOps == {"reply_text", "reply_photo", "send_photo", "send_message"}

\* C16: a navigation request that renders its target item leaves the store
\* as it was and the chat with the messages it had: the handler sends
\* nothing, and the item reaches the chat through one accepted edit of the
\* message that carries the navigation row.
C16_NavigationEditsInPlace ==
    [][(h'.name = "page" /\ h'.outcome = "rendered")
          => /\ item_lists' = item_lists
             /\ \A k \in DOMAIN h'.trace : h'.trace[k].op \notin SendOps
             /\ Cardinality({k \in DOMAIN h'.trace :
                               /\ h'.trace[k].op = "edit_message_media" /\ h'.trace[k].ok
                               /\ h'.trace[k].msg = <<format_item_message(
                                      h'.lookup[1], PagePrefixOf(h'.lookup[1], Today),
                                      h'.token.index, Len(item_lists[h'.token.list_id]),
                                      h'.token.list_id)>>}) = 1]_vars

C16_Witness ==
    /\ h.name = "page" /\ h.outcome = "rendered"
    /\ h.token.index = 1
    /\ \E k \in DOMAIN h.trace : h.trace[k].op = "edit_message_media" /\ h.trace[k].ok

\* C17: between two consecutive calls of a release command that both put a
\* message into the chat, the command has slept at least once.
C17_InterSendDelay ==
    h.name = "releases"
        => \A k \in 2..Len(h.trace) :
             (/\ h.trace[k - 1].op \in SendOps /\ h.trace[k - 1].ok
              /\ h.trace[k].op \in SendOps /\ h.trace[k].ok)
                => SleepsBefore(h, k) > 0

\* The handed items whose enrichment completed before the call ended
Completed ==
    {k \in 1..Len(h.handed) : \A j \in 1..k : ~DetailsRaises(h.exts[j].det)}

\* C18: a pipeline call in which a detail fetch runs out of time after other
\* enrichments have completed does not fail: it returns the completed items,
\* in order, as a partial list.
C18_PartialKept ==
    (h.name = "pipeline" /\ h.fetched /\ Completed # {}
       /\ \E j \in 1..Len(h.handed) : DetailsRaises(h.exts[j].det))
        => /\ h.res.ok
           /\ Len(h.res.items) = Cardinality(Completed)
           /\ \A k \in Completed :
                h.res.items[k] = _enrich_item_data(h.handed[k], h.item_type, h.exts[k]).item

\* C19: a navigation request whose callback data does not decode (not three
\* fields, or an index that is not an integer) is answered with something the
\* user sees: after query.answer() the handler calls the sink again, and it
\* does not end as an ignored request.
C19_DecodeFailureAnswered ==
    (h.name = "page" /\ h.trace[1].ok /\ ~h.token.ok)
        => /\ h.outcome # "ignored"
           /\ \E k \in DOMAIN h.trace : h.trace[k].op # "answer"

\* The session and the index of the item a handler rendered
RenderedList == IF h.name = "page" THEN h.token.list_id ELSE h.list_id

RenderedIndex == IF h.name = "page" THEN h.token.index ELSE 0

\* C20: the navigation row rendered with index i of a committed session of
\* n items is empty when n <= 1; otherwise its back button carries a token
\* only when i > 0, for i - 1, its forward button only when i < n - 1, for
\* i + 1, and every token of the row decodes to a key of the store and an
\* index the lookup of pagination_handler finds.
C20_TokensInRange ==
    h.name \in {"releases", "page"}
        => \A k \in DOMAIN h.trace :
             h.trace[k].msg # NoMsg
                => LET nav == h.trace[k].msg[1].nav
                       n == Len(item_lists[RenderedList])
                       i == RenderedIndex
                   IN /\ n <= 1 => nav = <<>>
                      /\ n > 1 => Len(nav) = 2
                      /\ \A b \in DOMAIN nav :
                           nav[b] # NoopToken
                              => LET tok == ParseToken(nav[b])
                                 IN /\ tok.ok /\ tok.list_id = RenderedList
                                    /\ tok.index = IF b = 1 THEN i - 1 ELSE i + 1
                                    /\ IF b = 1 THEN i > 0 ELSE i < n - 1
                                    /\ ~NotFound(item_lists[tok.list_id], tok.index)

C20_Witness ==
    /\ h.name = "page" /\ h.outcome = "rendered"
    /\ \E k \in DOMAIN h.trace :
         /\ h.trace[k].msg # NoMsg
         /\ Len(h.trace[k].msg[1].nav) = 2
         /\ h.trace[k].msg[1].nav[1] # NoopToken
         /\ h.trace[k].msg[1].nav[2] = NoopToken

\* The positions of the entries _parse_trailer looks for
TrailerMatches(videos) ==
    {k \in DOMAIN videos : videos[k].type = "Trailer" /\ videos[k].site = "YouTube"}

\* C21: _parse_trailer returns the link built from the key of the first
\* entry of the list whose type is "Trailer" and whose site is "YouTube",
\* and no link when the list has no such entry.
C21_FirstTrailer ==
    h.name = "trailer"
        => LET m == TrailerMatches(h.videos)
           IN IF m = {} THEN h.res = <<>>
              ELSE \E k \in m : /\ \A j \in m : k <= j
                                /\ h.res = TrailerUrl(h.videos[k].key)

C21_Witness ==
    /\ h.name = "trailer"
    /\ Len(h.videos) = 3
    /\ TrailerMatches(h.videos) = {2, 3}
    /\ h.videos[2].key # h.videos[3].key
    /\ h.res # <<>>

C21_WitnessNoMatch ==
    /\ h.name = "trailer" /\ h.videos # <<>> /\ h.res = <<>>

C23_NoSendAfterStop ==
    [][(job.pc = "send" /\ job' # job) => Head(job.todo) \in chat_ids]_vars

\* C24: whenever a release command hands the sink a message with the
\* navigation row of a session, accepted or not, the store holds that
\* session's key with the whole list: the item shown is its first item, the
\* row is there exactly when the list has more than one item, and its tokens
\* carry that key.
C24_CommitBeforeSend ==
    h.name = "releases"
        => \A k \in DOMAIN h.trace :
             h.trace[k].msg # NoMsg
                => LET m == h.trace[k].msg[1]
                   IN /\ h.list_id \in DOMAIN item_lists
                      /\ item_lists[h.list_id][1].id = m.text.title
                      /\ (m.nav = <<>>) <=> (Len(item_lists[h.list_id]) <= 1)
                      /\ \A b \in DOMAIN m.nav :
                           m.nav[b] # NoopToken
                              => ParseToken(m.nav[b]).list_id = h.list_id

C24_Witness ==
    /\ h.name = "releases" /\ Refused(h.trace, "reply_photo")
    /\ h.list_id \in DOMAIN item_lists
    /\ Len(item_lists[h.list_id]) = 2

NoDuplicates(q) == \A i, j \in DOMAIN q : i # j => q[i] # q[j]

\* C27: however often /start and /stop were handled, a run of a daily job
\* has each chat at most once among the chats it has had a turn for (one
\* commit and one send attempt each; job.sent) and the chats it still has to
\* serve (job.todo).
C27_OncePerChat ==
    /\ NoDuplicates(job.sent \o job.todo)
    /\ Len(job.sent \o job.todo) <= Cardinality(Chats)

C27_Witness ==
    /\ job.pc = "done" /\ job.result = "completed"
    /\ Len(job.sent) = 2
    /\ h.name = "start" /\ h.chat \in chat_ids

\* C28: a /year whose argument is missing, is no integer or lies outside
\* 1970..current year makes one sink call, the usage or validation notice,
\* sends no request to the Source, leaves the store as it was and shows no
\* item.
C28_YearRejected ==
    [][(h'.name = "year"
        /\ (h'.args = <<>> \/ ~ParseInt(h'.args[1]).ok
              \/ ParseInt(h'.args[1]).val < MinYear
              \/ ParseInt(h'.args[1]).val > YearOf(Today)))
          => /\ Len(h'.trace) = 1
             /\ h'.trace[1].op = "reply_text"
             /\ h'.trace[1].text \in {Notice("usage"), Notice("bad_year")}
             /\ h'.trace[1].msg = NoMsg
             /\ h'.asked = <<>>
             /\ item_lists' = item_lists]_vars

C28_Witness ==
    /\ h.name = "year" /\ h.outcome = "bad_year"
    /\ h.args = <<NatToStr(YearOf(Today) + 1)>>

\* C25: every session of the store holds at least one item and at most 5,
\* and the session a /year has just committed at most 3.
C25_SessionSizes ==
    \A id \in DOMAIN item_lists :
        /\ 1 <= Len(item_lists[id])
        /\ Len(item_lists[id]) <= Limit
        /\ (h.name = "year" /\ id = h.list_id) => Len(item_lists[id]) <= YearLimit

C25_Witness ==
    /\ h.name = "year" /\ h.outcome = "sent"
    /\ Len(tmdb.first) > YearLimit
    /\ Len(item_lists[h.list_id]) = YearLimit

C25_WitnessReleases ==
    /\ h.name = "releases" /\ h.outcome = "sent"
    /\ Len(tmdb.first) > Limit
    /\ Len(item_lists[h.list_id]) = Limit

\* C26: a navigation request that renders index 0 of the session a command
\* has just sent with a navigation row shows the title prefix of the
\* command's own message.
C26_SamePrefix ==
    [][(/\ h.name \in {"releases", "next", "year"} /\ h.outcome = "sent"
        /\ h.trace[2].msg[1].nav # <<>>
        /\ h'.name = "page" /\ h'.outcome = "rendered"
        /\ h'.token.list_id = h.list_id /\ h'.token.index = 0)
          => h'.trace[2].text.prefix = h.trace[2].text.prefix]_vars

\* The releases with a poster that the Source answered with for one day of
\* the window: those of the first request or, for films, of the region "US"
\* request
DayMedia(item_type, day) ==
    LET first == IF day.first.status = "ok" THEN WithPoster(day.first.results) ELSE <<>>
        second == IF day.second.status = "ok" THEN WithPoster(day.second.results) ELSE <<>>
    IN IF first # <<>> \/ item_type # "movie" THEN first ELSE second

C29_WitnessNone ==
    /\ h.name = "next" /\ h.ok /\ h.items = <<>> /\ h.day = 0
    /\ \A i \in 1..Len(h.days) : h.days[i].first.status = "ok"

\* The text a message entity covers
EntityText(caption, entity) ==
    [k \in 1..entity.length |->
        IF entity.offset + k <= Len(caption) THEN caption[entity.offset + k] ELSE ""]

MentionsBot(message) ==
    \E k \in DOMAIN message.caption_entities :
        /\ message.caption_entities[k].type = "mention"
        /\ EntityText(message.caption, message.caption_entities[k]) = <<"@">> \o BotUsername

\* What the status message shows after the calls of trace: the text of the
\* last accepted send or edit, or "deleted"
RECURSIVE StatusAfter(_, _)
StatusAfter(trace, shown) ==
    IF trace = <<>> THEN shown
    ELSE LET c == Head(trace)
         IN StatusAfter(Tail(trace),
                        IF c.ok /\ c.op \in {"send_message", "edit_text"} THEN c.text.prefix.tag
                        ELSE IF c.ok /\ c.op = "delete" THEN "deleted"
                        ELSE shown)

PhotoSettled(trace) ==
    LET shown == StatusAfter(trace, "")
    IN \/ shown \in {"photo_failed", "photo_no_movie", "photo_error"}
       \/ /\ shown = "deleted"
          /\ \E k \in DOMAIN trace : trace[k].op = "send_photo" /\ trace[k].ok

PhotoQuiet(message, trace) == ~MentionsBot(message) => trace = <<>>

C30_WitnessOther ==
    /\ h.name = "photo" /\ h.outcome = "ignored" /\ h.trace = <<>>
    /\ Len(h.message.caption) = 2

C30_WitnessError ==
    /\ h.name = "photo" /\ h.outcome = "error"
    /\ \E k \in DOMAIN h.trace : h.trace[k].op = "send_photo" /\ ~h.trace[k].ok

====
